---- MODULE Spec2Model ----
(***************************************************************************)
(* Model of FASTAPI_s3.py: the pure calculator                             *)
(* calculate_performance_metrics and the endpoint performance_metrics that *)
(* cuts the hourly series into days of 24 values.                          *)
(*                                                                         *)
(* Numbers.  The program computes with the floats of CPython, IEEE-754     *)
(* binary64, and with the int 0 that the code writes.  The model holds a   *)
(* float as sign, mantissa and exponent and does every sum, product,       *)
(* quotient and round() of the program bit for bit: round to nearest, ties *)
(* to even, subnormal numbers, signed zeros, infinities and nan.  A        *)
(* consumption value, a tariff and an emission factor are floats; a        *)
(* decimal such as 0.10 is the float nearest to it, decimal(10, 2).  An    *)
(* int in the place of a float is computed with as Python does: exactly    *)
(* with another int, int / int being the exact quotient rounded once, and  *)
(* as its float otherwise, which it has below 2^1024 only (OverflowError). *)
(*                                                                         *)
(* Strings are sequences of Unicode code points, so that str.lower() is a  *)
(* computation on the tables of the Unicode version of CPython 3.11.       *)
(***************************************************************************)
EXTENDS Integers, Sequences, FiniteSets, TLC

\* ------------------------------------------------------------------------
\* Bounds of the explored inputs
\* ------------------------------------------------------------------------
CalcMaxLen == 26
EndpointMaxLen == 49
ConcMaxLen == 25
NumClients == 2

\* ------------------------------------------------------------------------
\* Strings
\* ------------------------------------------------------------------------
UpperCase ==
  <<"A","B","C","D","E","F","G","H","I","J","K","L","M",
    "N","O","P","Q","R","S","T","U","V","W","X","Y","Z">>

LowerCase ==
  <<"a","b","c","d","e","f","g","h","i","j","k","l","m",
    "n","o","p","q","r","s","t","u","v","w","x","y","z">>

\* ord(ch) for a letter of ASCII or the underscore
ord(ch) ==
  IF \E i \in DOMAIN UpperCase : UpperCase[i] = ch
  THEN 64 + CHOOSE i \in DOMAIN UpperCase : UpperCase[i] = ch
  ELSE IF \E i \in DOMAIN LowerCase : LowerCase[i] = ch
  THEN 96 + CHOOSE i \in DOMAIN LowerCase : LowerCase[i] = ch
  ELSE 95

\* The string of the given letters, as its code points.
text(letters) == [i \in DOMAIN letters |-> ord(letters[i])]

\* The characters above U+007F that str.lower() changes into one other
\* character, in runs <<first, last, step, shift>>: every step-th code point
\* from first to last goes to the one `shift` places on (Unicode 14.0.0,
\* the tables of CPython 3.11).
LowerRuns ==
  <<
  <<192,214,1,32>>, <<216,222,1,32>>, <<256,302,2,1>>, <<306,310,2,1>>,
  <<313,327,2,1>>, <<330,374,2,1>>, <<376,376,1,-121>>, <<377,381,2,1>>,
  <<385,385,1,210>>, <<386,388,2,1>>, <<390,390,1,206>>, <<391,391,1,1>>,
  <<393,394,1,205>>, <<395,395,1,1>>, <<398,398,1,79>>, <<399,399,1,202>>,
  <<400,400,1,203>>, <<401,401,1,1>>, <<403,403,1,205>>, <<404,404,1,207>>,
  <<406,406,1,211>>, <<407,407,1,209>>, <<408,408,1,1>>, <<412,412,1,211>>,
  <<413,413,1,213>>, <<415,415,1,214>>, <<416,420,2,1>>, <<422,422,1,218>>,
  <<423,423,1,1>>, <<425,425,1,218>>, <<428,428,1,1>>, <<430,430,1,218>>,
  <<431,431,1,1>>, <<433,434,1,217>>, <<435,437,2,1>>, <<439,439,1,219>>,
  <<440,440,1,1>>, <<444,444,1,1>>, <<452,452,1,2>>, <<453,453,1,1>>,
  <<455,455,1,2>>, <<456,456,1,1>>, <<458,458,1,2>>, <<459,475,2,1>>,
  <<478,494,2,1>>, <<497,497,1,2>>, <<498,500,2,1>>, <<502,502,1,-97>>,
  <<503,503,1,-56>>, <<504,542,2,1>>, <<544,544,1,-130>>, <<546,562,2,1>>,
  <<570,570,1,10795>>, <<571,571,1,1>>, <<573,573,1,-163>>,
  <<574,574,1,10792>>, <<577,577,1,1>>, <<579,579,1,-195>>, <<580,580,1,69>>,
  <<581,581,1,71>>, <<582,590,2,1>>, <<880,882,2,1>>, <<886,886,1,1>>,
  <<895,895,1,116>>, <<902,902,1,38>>, <<904,906,1,37>>, <<908,908,1,64>>,
  <<910,911,1,63>>, <<913,929,1,32>>, <<931,939,1,32>>, <<975,975,1,8>>,
  <<984,1006,2,1>>, <<1012,1012,1,-60>>, <<1015,1015,1,1>>,
  <<1017,1017,1,-7>>, <<1018,1018,1,1>>, <<1021,1023,1,-130>>,
  <<1024,1039,1,80>>, <<1040,1071,1,32>>, <<1120,1152,2,1>>,
  <<1162,1214,2,1>>, <<1216,1216,1,15>>, <<1217,1229,2,1>>,
  <<1232,1326,2,1>>, <<1329,1366,1,48>>, <<4256,4293,1,7264>>,
  <<4295,4295,1,7264>>, <<4301,4301,1,7264>>, <<5024,5103,1,38864>>,
  <<5104,5109,1,8>>, <<7312,7354,1,-3008>>, <<7357,7359,1,-3008>>,
  <<7680,7828,2,1>>, <<7838,7838,1,-7615>>, <<7840,7934,2,1>>,
  <<7944,7951,1,-8>>, <<7960,7965,1,-8>>, <<7976,7983,1,-8>>,
  <<7992,7999,1,-8>>, <<8008,8013,1,-8>>, <<8025,8031,2,-8>>,
  <<8040,8047,1,-8>>, <<8072,8079,1,-8>>, <<8088,8095,1,-8>>,
  <<8104,8111,1,-8>>, <<8120,8121,1,-8>>, <<8122,8123,1,-74>>,
  <<8124,8124,1,-9>>, <<8136,8139,1,-86>>, <<8140,8140,1,-9>>,
  <<8152,8153,1,-8>>, <<8154,8155,1,-100>>, <<8168,8169,1,-8>>,
  <<8170,8171,1,-112>>, <<8172,8172,1,-7>>, <<8184,8185,1,-128>>,
  <<8186,8187,1,-126>>, <<8188,8188,1,-9>>, <<8486,8486,1,-7517>>,
  <<8490,8490,1,-8383>>, <<8491,8491,1,-8262>>, <<8498,8498,1,28>>,
  <<8544,8559,1,16>>, <<8579,8579,1,1>>, <<9398,9423,1,26>>,
  <<11264,11311,1,48>>, <<11360,11360,1,1>>, <<11362,11362,1,-10743>>,
  <<11363,11363,1,-3814>>, <<11364,11364,1,-10727>>, <<11367,11371,2,1>>,
  <<11373,11373,1,-10780>>, <<11374,11374,1,-10749>>,
  <<11375,11375,1,-10783>>, <<11376,11376,1,-10782>>, <<11378,11378,1,1>>,
  <<11381,11381,1,1>>, <<11390,11391,1,-10815>>, <<11392,11490,2,1>>,
  <<11499,11501,2,1>>, <<11506,11506,1,1>>, <<42560,42604,2,1>>,
  <<42624,42650,2,1>>, <<42786,42798,2,1>>, <<42802,42862,2,1>>,
  <<42873,42875,2,1>>, <<42877,42877,1,-35332>>, <<42878,42886,2,1>>,
  <<42891,42891,1,1>>, <<42893,42893,1,-42280>>, <<42896,42898,2,1>>,
  <<42902,42920,2,1>>, <<42922,42922,1,-42308>>, <<42923,42923,1,-42319>>,
  <<42924,42924,1,-42315>>, <<42925,42925,1,-42305>>,
  <<42926,42926,1,-42308>>, <<42928,42928,1,-42258>>,
  <<42929,42929,1,-42282>>, <<42930,42930,1,-42261>>, <<42931,42931,1,928>>,
  <<42932,42946,2,1>>, <<42948,42948,1,-48>>, <<42949,42949,1,-42307>>,
  <<42950,42950,1,-35384>>, <<42951,42953,2,1>>, <<42960,42960,1,1>>,
  <<42966,42968,2,1>>, <<42997,42997,1,1>>, <<65313,65338,1,32>>,
  <<66560,66599,1,40>>, <<66736,66771,1,40>>, <<66928,66938,1,39>>,
  <<66940,66954,1,39>>, <<66956,66962,1,39>>, <<66964,66965,1,39>>,
  <<68736,68786,1,64>>, <<71840,71871,1,32>>, <<93760,93791,1,32>>,
  <<125184,125217,1,34>>
  >>

\* The characters with the property Case_Ignorable, in runs
\* <<first, last, step>>.
CaseIgnorableRuns ==
  <<
  <<39,39,1>>, <<46,46,1>>, <<58,58,1>>, <<94,96,2>>, <<168,168,1>>,
  <<173,175,2>>, <<180,180,1>>, <<183,184,1>>, <<688,879,1>>, <<884,885,1>>,
  <<890,890,1>>, <<900,901,1>>, <<903,903,1>>, <<1155,1161,1>>,
  <<1369,1369,1>>, <<1375,1375,1>>, <<1425,1469,1>>, <<1471,1473,2>>,
  <<1474,1476,2>>, <<1477,1479,2>>, <<1524,1524,1>>, <<1536,1541,1>>,
  <<1552,1562,1>>, <<1564,1564,1>>, <<1600,1600,1>>, <<1611,1631,1>>,
  <<1648,1648,1>>, <<1750,1757,1>>, <<1759,1768,1>>, <<1770,1773,1>>,
  <<1807,1809,2>>, <<1840,1866,1>>, <<1958,1968,1>>, <<2027,2037,1>>,
  <<2042,2042,1>>, <<2045,2045,1>>, <<2070,2093,1>>, <<2137,2139,1>>,
  <<2184,2184,1>>, <<2192,2193,1>>, <<2200,2207,1>>, <<2249,2306,1>>,
  <<2362,2364,2>>, <<2369,2376,1>>, <<2381,2381,1>>, <<2385,2391,1>>,
  <<2402,2403,1>>, <<2417,2417,1>>, <<2433,2433,1>>, <<2492,2492,1>>,
  <<2497,2500,1>>, <<2509,2509,1>>, <<2530,2531,1>>, <<2558,2558,1>>,
  <<2561,2562,1>>, <<2620,2620,1>>, <<2625,2626,1>>, <<2631,2632,1>>,
  <<2635,2637,1>>, <<2641,2641,1>>, <<2672,2673,1>>, <<2677,2677,1>>,
  <<2689,2690,1>>, <<2748,2748,1>>, <<2753,2757,1>>, <<2759,2760,1>>,
  <<2765,2765,1>>, <<2786,2787,1>>, <<2810,2815,1>>, <<2817,2817,1>>,
  <<2876,2876,1>>, <<2879,2881,2>>, <<2882,2884,1>>, <<2893,2893,1>>,
  <<2901,2902,1>>, <<2914,2915,1>>, <<2946,2946,1>>, <<3008,3008,1>>,
  <<3021,3021,1>>, <<3072,3072,1>>, <<3076,3076,1>>, <<3132,3134,2>>,
  <<3135,3136,1>>, <<3142,3144,1>>, <<3146,3149,1>>, <<3157,3158,1>>,
  <<3170,3171,1>>, <<3201,3201,1>>, <<3260,3260,1>>, <<3263,3263,1>>,
  <<3270,3270,1>>, <<3276,3277,1>>, <<3298,3299,1>>, <<3328,3329,1>>,
  <<3387,3388,1>>, <<3393,3396,1>>, <<3405,3405,1>>, <<3426,3427,1>>,
  <<3457,3457,1>>, <<3530,3530,1>>, <<3538,3540,1>>, <<3542,3542,1>>,
  <<3633,3633,1>>, <<3636,3642,1>>, <<3654,3662,1>>, <<3761,3761,1>>,
  <<3764,3772,1>>, <<3782,3784,2>>, <<3785,3789,1>>, <<3864,3865,1>>,
  <<3893,3897,2>>, <<3953,3966,1>>, <<3968,3972,1>>, <<3974,3975,1>>,
  <<3981,3991,1>>, <<3993,4028,1>>, <<4038,4038,1>>, <<4141,4144,1>>,
  <<4146,4151,1>>, <<4153,4154,1>>, <<4157,4158,1>>, <<4184,4185,1>>,
  <<4190,4192,1>>, <<4209,4212,1>>, <<4226,4226,1>>, <<4229,4230,1>>,
  <<4237,4237,1>>, <<4253,4253,1>>, <<4348,4348,1>>, <<4957,4959,1>>,
  <<5906,5908,1>>, <<5938,5939,1>>, <<5970,5971,1>>, <<6002,6003,1>>,
  <<6068,6069,1>>, <<6071,6077,1>>, <<6086,6086,1>>, <<6089,6099,1>>,
  <<6103,6103,1>>, <<6109,6109,1>>, <<6155,6159,1>>, <<6211,6211,1>>,
  <<6277,6278,1>>, <<6313,6313,1>>, <<6432,6434,1>>, <<6439,6440,1>>,
  <<6450,6450,1>>, <<6457,6459,1>>, <<6679,6680,1>>, <<6683,6683,1>>,
  <<6742,6744,2>>, <<6745,6750,1>>, <<6752,6754,2>>, <<6757,6764,1>>,
  <<6771,6780,1>>, <<6783,6783,1>>, <<6823,6823,1>>, <<6832,6862,1>>,
  <<6912,6915,1>>, <<6964,6966,2>>, <<6967,6970,1>>, <<6972,6972,1>>,
  <<6978,6978,1>>, <<7019,7027,1>>, <<7040,7041,1>>, <<7074,7077,1>>,
  <<7080,7081,1>>, <<7083,7085,1>>, <<7142,7144,2>>, <<7145,7145,1>>,
  <<7149,7151,2>>, <<7152,7153,1>>, <<7212,7219,1>>, <<7222,7223,1>>,
  <<7288,7293,1>>, <<7376,7378,1>>, <<7380,7392,1>>, <<7394,7400,1>>,
  <<7405,7405,1>>, <<7412,7412,1>>, <<7416,7417,1>>, <<7468,7530,1>>,
  <<7544,7544,1>>, <<7579,7679,1>>, <<8125,8127,2>>, <<8128,8129,1>>,
  <<8141,8143,1>>, <<8157,8159,1>>, <<8173,8175,1>>, <<8189,8190,1>>,
  <<8203,8207,1>>, <<8216,8217,1>>, <<8228,8228,1>>, <<8231,8231,1>>,
  <<8234,8238,1>>, <<8288,8292,1>>, <<8294,8303,1>>, <<8305,8305,1>>,
  <<8319,8319,1>>, <<8336,8348,1>>, <<8400,8432,1>>, <<11388,11389,1>>,
  <<11503,11505,1>>, <<11631,11631,1>>, <<11647,11647,1>>, <<11744,11775,1>>,
  <<11823,11823,1>>, <<12293,12293,1>>, <<12330,12333,1>>, <<12337,12341,1>>,
  <<12347,12347,1>>, <<12441,12446,1>>, <<12540,12542,1>>, <<40981,40981,1>>,
  <<42232,42237,1>>, <<42508,42508,1>>, <<42607,42610,1>>, <<42612,42621,1>>,
  <<42623,42623,1>>, <<42652,42655,1>>, <<42736,42737,1>>, <<42752,42785,1>>,
  <<42864,42864,1>>, <<42888,42890,1>>, <<42994,42996,1>>, <<43000,43001,1>>,
  <<43010,43010,1>>, <<43014,43014,1>>, <<43019,43019,1>>, <<43045,43046,1>>,
  <<43052,43052,1>>, <<43204,43205,1>>, <<43232,43249,1>>, <<43263,43263,1>>,
  <<43302,43309,1>>, <<43335,43345,1>>, <<43392,43394,1>>, <<43443,43443,1>>,
  <<43446,43449,1>>, <<43452,43453,1>>, <<43471,43471,1>>, <<43493,43494,1>>,
  <<43561,43566,1>>, <<43569,43570,1>>, <<43573,43574,1>>, <<43587,43587,1>>,
  <<43596,43596,1>>, <<43632,43632,1>>, <<43644,43644,1>>, <<43696,43698,2>>,
  <<43699,43700,1>>, <<43703,43704,1>>, <<43710,43711,1>>, <<43713,43713,1>>,
  <<43741,43741,1>>, <<43756,43757,1>>, <<43763,43764,1>>, <<43766,43766,1>>,
  <<43867,43871,1>>, <<43881,43883,1>>, <<44005,44005,1>>, <<44008,44008,1>>,
  <<44013,44013,1>>, <<64286,64286,1>>, <<64434,64450,1>>, <<65024,65039,1>>,
  <<65043,65043,1>>, <<65056,65071,1>>, <<65106,65106,1>>, <<65109,65109,1>>,
  <<65279,65279,1>>, <<65287,65287,1>>, <<65294,65294,1>>, <<65306,65306,1>>,
  <<65342,65344,2>>, <<65392,65392,1>>, <<65438,65439,1>>, <<65507,65507,1>>,
  <<65529,65531,1>>, <<66045,66045,1>>, <<66272,66272,1>>, <<66422,66426,1>>,
  <<67456,67461,1>>, <<67463,67504,1>>, <<67506,67514,1>>, <<68097,68099,1>>,
  <<68101,68102,1>>, <<68108,68111,1>>, <<68152,68154,1>>, <<68159,68159,1>>,
  <<68325,68326,1>>, <<68900,68903,1>>, <<69291,69292,1>>, <<69446,69456,1>>,
  <<69506,69509,1>>, <<69633,69633,1>>, <<69688,69702,1>>, <<69744,69744,1>>,
  <<69747,69748,1>>, <<69759,69761,1>>, <<69811,69814,1>>, <<69817,69818,1>>,
  <<69821,69821,1>>, <<69826,69826,1>>, <<69837,69837,1>>, <<69888,69890,1>>,
  <<69927,69931,1>>, <<69933,69940,1>>, <<70003,70003,1>>, <<70016,70017,1>>,
  <<70070,70078,1>>, <<70089,70092,1>>, <<70095,70095,1>>, <<70191,70193,1>>,
  <<70196,70198,2>>, <<70199,70199,1>>, <<70206,70206,1>>, <<70367,70367,1>>,
  <<70371,70378,1>>, <<70400,70401,1>>, <<70459,70460,1>>, <<70464,70464,1>>,
  <<70502,70508,1>>, <<70512,70516,1>>, <<70712,70719,1>>, <<70722,70724,1>>,
  <<70726,70726,1>>, <<70750,70750,1>>, <<70835,70840,1>>, <<70842,70842,1>>,
  <<70847,70848,1>>, <<70850,70851,1>>, <<71090,71093,1>>, <<71100,71101,1>>,
  <<71103,71104,1>>, <<71132,71133,1>>, <<71219,71226,1>>, <<71229,71231,2>>,
  <<71232,71232,1>>, <<71339,71341,2>>, <<71344,71349,1>>, <<71351,71351,1>>,
  <<71453,71455,1>>, <<71458,71461,1>>, <<71463,71467,1>>, <<71727,71735,1>>,
  <<71737,71738,1>>, <<71995,71996,1>>, <<71998,71998,1>>, <<72003,72003,1>>,
  <<72148,72151,1>>, <<72154,72155,1>>, <<72160,72160,1>>, <<72193,72202,1>>,
  <<72243,72248,1>>, <<72251,72254,1>>, <<72263,72263,1>>, <<72273,72278,1>>,
  <<72281,72283,1>>, <<72330,72342,1>>, <<72344,72345,1>>, <<72752,72758,1>>,
  <<72760,72765,1>>, <<72767,72767,1>>, <<72850,72871,1>>, <<72874,72880,1>>,
  <<72882,72883,1>>, <<72885,72886,1>>, <<73009,73014,1>>, <<73018,73020,2>>,
  <<73021,73023,2>>, <<73024,73029,1>>, <<73031,73031,1>>, <<73104,73105,1>>,
  <<73109,73111,2>>, <<73459,73460,1>>, <<78896,78904,1>>, <<92912,92916,1>>,
  <<92976,92982,1>>, <<92992,92995,1>>, <<94031,94031,1>>, <<94095,94111,1>>,
  <<94176,94177,1>>, <<94179,94180,1>>, <<110576,110579,1>>,
  <<110581,110587,1>>, <<110589,110590,1>>, <<113821,113822,1>>,
  <<113824,113827,1>>, <<118528,118573,1>>, <<118576,118598,1>>,
  <<119143,119145,1>>, <<119155,119170,1>>, <<119173,119179,1>>,
  <<119210,119213,1>>, <<119362,119364,1>>, <<121344,121398,1>>,
  <<121403,121452,1>>, <<121461,121461,1>>, <<121476,121476,1>>,
  <<121499,121503,1>>, <<121505,121519,1>>, <<122880,122886,1>>,
  <<122888,122904,1>>, <<122907,122913,1>>, <<122915,122916,1>>,
  <<122918,122922,1>>, <<123184,123197,1>>, <<123566,123566,1>>,
  <<123628,123631,1>>, <<125136,125142,1>>, <<125252,125259,1>>,
  <<127995,127999,1>>, <<917505,917505,1>>, <<917536,917631,1>>,
  <<917760,917999,1>>
  >>

\* The characters with the property Cased, in runs <<first, last, step>>.
CasedRuns ==
  <<
  <<65,90,1>>, <<97,122,1>>, <<170,170,1>>, <<181,181,1>>, <<186,186,1>>,
  <<192,214,1>>, <<216,246,1>>, <<248,442,1>>, <<444,447,1>>, <<452,659,1>>,
  <<661,696,1>>, <<704,705,1>>, <<736,740,1>>, <<837,837,1>>, <<880,883,1>>,
  <<886,887,1>>, <<890,893,1>>, <<895,895,1>>, <<902,904,2>>, <<905,906,1>>,
  <<908,910,2>>, <<911,929,1>>, <<931,1013,1>>, <<1015,1153,1>>,
  <<1162,1327,1>>, <<1329,1366,1>>, <<1376,1416,1>>, <<4256,4293,1>>,
  <<4295,4295,1>>, <<4301,4301,1>>, <<4304,4346,1>>, <<4349,4351,1>>,
  <<5024,5109,1>>, <<5112,5117,1>>, <<7296,7304,1>>, <<7312,7354,1>>,
  <<7357,7359,1>>, <<7424,7615,1>>, <<7680,7957,1>>, <<7960,7965,1>>,
  <<7968,8005,1>>, <<8008,8013,1>>, <<8016,8023,1>>, <<8025,8031,2>>,
  <<8032,8061,1>>, <<8064,8116,1>>, <<8118,8124,1>>, <<8126,8126,1>>,
  <<8130,8132,1>>, <<8134,8140,1>>, <<8144,8147,1>>, <<8150,8155,1>>,
  <<8160,8172,1>>, <<8178,8180,1>>, <<8182,8188,1>>, <<8305,8305,1>>,
  <<8319,8319,1>>, <<8336,8348,1>>, <<8450,8450,1>>, <<8455,8455,1>>,
  <<8458,8467,1>>, <<8469,8469,1>>, <<8473,8477,1>>, <<8484,8490,2>>,
  <<8491,8493,1>>, <<8495,8500,1>>, <<8505,8505,1>>, <<8508,8511,1>>,
  <<8517,8521,1>>, <<8526,8526,1>>, <<8544,8575,1>>, <<8579,8580,1>>,
  <<9398,9449,1>>, <<11264,11492,1>>, <<11499,11502,1>>, <<11506,11507,1>>,
  <<11520,11557,1>>, <<11559,11559,1>>, <<11565,11565,1>>, <<42560,42605,1>>,
  <<42624,42653,1>>, <<42786,42887,1>>, <<42891,42894,1>>, <<42896,42954,1>>,
  <<42960,42961,1>>, <<42963,42965,2>>, <<42966,42969,1>>, <<42997,42998,1>>,
  <<43000,43002,1>>, <<43824,43866,1>>, <<43868,43880,1>>, <<43888,43967,1>>,
  <<64256,64262,1>>, <<64275,64279,1>>, <<65313,65338,1>>, <<65345,65370,1>>,
  <<66560,66639,1>>, <<66736,66771,1>>, <<66776,66811,1>>, <<66928,66938,1>>,
  <<66940,66954,1>>, <<66956,66962,1>>, <<66964,66965,1>>, <<66967,66977,1>>,
  <<66979,66993,1>>, <<66995,67001,1>>, <<67003,67004,1>>, <<67456,67456,1>>,
  <<67459,67461,1>>, <<67463,67504,1>>, <<67506,67514,1>>, <<68736,68786,1>>,
  <<68800,68850,1>>, <<71840,71903,1>>, <<93760,93823,1>>,
  <<119808,119892,1>>, <<119894,119964,1>>, <<119966,119967,1>>,
  <<119970,119970,1>>, <<119973,119974,1>>, <<119977,119980,1>>,
  <<119982,119993,1>>, <<119995,119997,2>>, <<119998,120003,1>>,
  <<120005,120069,1>>, <<120071,120074,1>>, <<120077,120084,1>>,
  <<120086,120092,1>>, <<120094,120121,1>>, <<120123,120126,1>>,
  <<120128,120132,1>>, <<120134,120134,1>>, <<120138,120144,1>>,
  <<120146,120485,1>>, <<120488,120512,1>>, <<120514,120538,1>>,
  <<120540,120570,1>>, <<120572,120596,1>>, <<120598,120628,1>>,
  <<120630,120654,1>>, <<120656,120686,1>>, <<120688,120712,1>>,
  <<120714,120744,1>>, <<120746,120770,1>>, <<120772,120779,1>>,
  <<122624,122633,1>>, <<122635,122654,1>>, <<125184,125251,1>>,
  <<127280,127305,1>>, <<127312,127337,1>>, <<127344,127369,1>>
  >>

\* Whether the code point c is in one of the runs.
in_runs(c, runs) ==
  \E i \in DOMAIN runs :
    /\ runs[i][1] <= c
    /\ c <= runs[i][2]
    /\ (c - runs[i][1]) % runs[i][3] = 0

IsCaseIgnorable(c) == in_runs(c, CaseIgnorableRuns)

IsCased(c) == in_runs(c, CasedRuns)

\* The shift of the run of `runs` that holds c, 0 when there is none.
run_shift(c, runs) ==
  IF in_runs(c, runs)
  THEN runs[CHOOSE i \in DOMAIN runs :
              /\ runs[i][1] <= c
              /\ c <= runs[i][2]
              /\ (c - runs[i][1]) % runs[i][3] = 0][4]
  ELSE 0

\* The lowercase of one code point where it is one code point.
ToLower(c) ==
  IF c < 128 THEN IF 65 <= c /\ c <= 90 THEN c + 32 ELSE c
  ELSE c + run_shift(c, LowerRuns)

\* The lowercase of one code point: U+0130 gives two code points.
ToLowerFull(c) == IF c = 304 THEN <<105, 775>> ELSE <<ToLower(c)>>

\* The last position before i (the first from i on) that holds a character
\* that is not Case_Ignorable; 0 (Len(s) + 1) when there is none.
RECURSIVE before_ignorable(_, _)
before_ignorable(s, i) ==
  IF i = 0 THEN 0
  ELSE IF IsCaseIgnorable(s[i]) THEN before_ignorable(s, i - 1)
  ELSE i

RECURSIVE after_ignorable(_, _)
after_ignorable(s, i) ==
  IF i > Len(s) THEN i
  ELSE IF IsCaseIgnorable(s[i]) THEN after_ignorable(s, i + 1)
  ELSE i

\* The lowercase of the capital sigma at position i of s: the final sigma
\* U+03C2 after a cased letter and not before one, else U+03C3 (j and k
\* are the places next to i that hold a character that counts).
final_sigma(s, j, k) ==
  IF /\ j > 0
     /\ IsCased(s[j])
     /\ (k > Len(s) \/ ~IsCased(s[k]))
  THEN 962
  ELSE 963

handle_capital_sigma(s, i) ==
  final_sigma(s, before_ignorable(s, i - 1), after_ignorable(s, i + 1))

\* The lowercase of the character at position i of s.
lower_char(s, i) ==
  IF s[i] = 931 THEN <<handle_capital_sigma(s, i)>> ELSE ToLowerFull(s[i])

RECURSIVE lower_first(_, _)
lower_first(s, n) ==
  IF n = 0 THEN <<>> ELSE lower_first(s, n - 1) \o lower_char(s, n)

\* A plausible slip: the source is used as given.
lower_missing(s) == s

\* source.lower()
lower(s) == lower_first(s, Len(s))

coal == text(<<"c","o","a","l">>)
natural_gas == text(<<"n","a","t","u","r","a","l","_","g","a","s">>)
oil == text(<<"o","i","l">>)
nuclear == text(<<"n","u","c","l","e","a","r">>)
renewables == text(<<"r","e","n","e","w","a","b","l","e","s">>)
grid_mix == text(<<"g","r","i","d","_","m","i","x">>)

\* ------------------------------------------------------------------------
\* State
\* ------------------------------------------------------------------------
VARIABLES
  EMISSION_FACTORS,  \* the module-level dict
  call,              \* the last direct call of the calculator and its outcome
  inbox,             \* per client: its request on the way to the handler
  pc,                \* per client: position of its request in the handler
  request,           \* per client: the four query parameters of its request
  day_index,         \* per client: loop variable of the handler
  day_iter,          \* per client: what range(num_days) yields next
  results,           \* per client: the handler's local list
  response,          \* per client: what the handler returned or raised
  handed             \* per client: the slices handed to the calculator so far

vars ==
  <<EMISSION_FACTORS, call, inbox, pc, request, day_index, day_iter, results, response,
    handed>>

Clients == 1..NumClients

None == <<>>

\* ------------------------------------------------------------------------
\* dict and list primitives
\* ------------------------------------------------------------------------
\* list(d.keys())
dict_keys(d) == [i \in DOMAIN d |-> d[i][1]]

\* key in d
dict_contains(d, key) == \E i \in DOMAIN d : d[i][1] = key

\* d[key]
dict_get(d, key) == d[CHOOSE i \in DOMAIN d : d[i][1] = key][2]

\* list(range(a, b))
range(a, b) == [i \in 1..(IF b > a THEN b - a ELSE 0) |-> a + i - 1]

\* xs[start:end] for 0 <= start <= end
slice(xs, start, end) ==
  SubSeq(xs, start + 1, IF end < Len(xs) THEN end ELSE Len(xs))

\* 2 ** n for 0 <= n <= 15
pow2(n) ==
  <<1, 2, 4, 8, 16, 32, 64, 128, 256, 512, 1024, 2048, 4096, 8192, 16384,
    32768>>[n + 1]

\* math.ceil(n / d) for n >= 0
ceil_div(n, d) == (n + d - 1) \div d

\* ------------------------------------------------------------------------
\* Natural numbers of any size: the digits in base 2^15, lowest first,
\* without leading zeros (0 is <<>>).  They hold the mantissas.
\* ------------------------------------------------------------------------

\* The digit of a at place i, 0 beyond its ends
digit(a, i) == IF 1 <= i /\ i <= Len(a) THEN a[i] ELSE 0

\* The place of the highest digit of a that is not 0
big_len(a) ==
  Cardinality({i \in 1..Len(a) : \E j \in i..Len(a) : a[j] # 0})

\* a without leading zeros
big_trim(a) ==
  IF Len(a) = 0 \/ a[Len(a)] # 0 THEN a ELSE SubSeq(a, 1, big_len(a))

\* The big number of an integer 0 <= n < 2^31
big(n) ==
  big_trim(<<n % 32768, (n \div 32768) % 32768, n \div 1073741824>>)

\* Whether the digits of a and b below place i carry into it: some place
\* overflows, and every place from there on is full.
big_carry(a, b, i) ==
  \E j \in 1..(i - 1) :
    /\ digit(a, j) + digit(b, j) >= 32768
    /\ \A k \in (j + 1)..(i - 1) : digit(a, k) + digit(b, k) = 32767

big_add_digit(a, b, i) ==
  (digit(a, i) + digit(b, i) + (IF big_carry(a, b, i) THEN 1 ELSE 0)) % 32768

big_add_to(a, b, n) ==
  big_trim(SubSeq([i \in 1..n |-> big_add_digit(a, b, i)], 1, n))

\* a + b
big_add(a, b) ==
  big_add_to(a, b, (IF Len(a) > Len(b) THEN Len(a) ELSE Len(b)) + 1)

\* Whether the digits of a and b below place i borrow from it: a has the
\* smaller digit at some place, and the same digit from there on.
big_borrow(a, b, i) ==
  \E j \in 1..(i - 1) :
    /\ digit(a, j) < digit(b, j)
    /\ \A k \in (j + 1)..(i - 1) : digit(a, k) = digit(b, k)

big_sub_digit(a, b, i) ==
  (32768 + a[i] - digit(b, i) - (IF big_borrow(a, b, i) THEN 1 ELSE 0))
    % 32768

\* a - b for a >= b
big_sub(a, b) ==
  big_trim(SubSeq([i \in 1..Len(a) |-> big_sub_digit(a, b, i)], 1, Len(a)))

\* -1, 0 or 1 as a < b, a = b or a > b: the highest digit that differs
\* decides between numbers of one length.
big_cmp(a, b) ==
  IF Len(a) < Len(b) THEN -1
  ELSE IF Len(a) > Len(b) THEN 1
  ELSE IF \A i \in 1..Len(a) : a[i] = b[i] THEN 0
  ELSE IF \E i \in 1..Len(a) :
            /\ a[i] < b[i]
            /\ \A j \in (i + 1)..Len(a) : a[j] = b[j]
       THEN -1
  ELSE 1

\* a * k for an integer 0 <= k <= 2^15: the low halves of the products of
\* the digits, plus their high halves one place up
big_mul_small(a, k) ==
  big_add(SubSeq([i \in 1..Len(a) |-> (a[i] * k) % 32768], 1, Len(a)),
          SubSeq([i \in 1..(Len(a) + 1) |-> (digit(a, i - 1) * k) \div 32768],
                 1, Len(a) + 1))

\* a * 2^s for 0 <= s < 15
big_shl_bits(a, s) ==
  SubSeq([i \in 1..(Len(a) + 1) |->
            ((digit(a, i) * pow2(s)) % 32768) + (digit(a, i - 1) \div pow2(15 - s))],
         1, Len(a) + 1)

\* a * 2^(15 * n)
big_shl_digits(a, n) ==
  big_trim(SubSeq([i \in 1..(Len(a) + n) |-> digit(a, i - n)], 1, Len(a) + n))

\* a * 2^k
big_shl(a, k) ==
  IF k = 0 THEN a ELSE big_shl_digits(big_shl_bits(a, k % 15), k \div 15)

\* a times the digits lo..hi of b, taken as a number: by halves
RECURSIVE big_mul_digits(_, _, _, _)
big_mul_halves(a, b, lo, mid, hi) ==
  big_add(big_mul_digits(a, b, lo, mid),
          big_shl_digits(big_mul_digits(a, b, mid + 1, hi), mid - lo + 1))

big_mul_digits(a, b, lo, hi) ==
  IF lo > hi THEN <<>>
  ELSE IF lo = hi THEN big_mul_small(a, b[lo])
  ELSE big_mul_halves(a, b, lo, (lo + hi) \div 2, hi)

\* a * b, digit by digit of the shorter one
big_mul(a, b) ==
  IF Len(a) < Len(b) THEN big_mul_digits(b, a, 1, Len(a))
  ELSE big_mul_digits(a, b, 1, Len(b))

\* 10 ** n as a big number, for 0 <= n <= 6
big_pow10(n) ==
  <<<<1>>, <<10>>, <<100>>, <<1000>>, <<10000>>, <<1696, 3>>,
    <<16960, 30>>>>[n + 1]

\* a div 2^s for 0 <= s < 15
big_shr_bits(a, s) ==
  big_trim(SubSeq([i \in 1..Len(a) |->
                     (a[i] \div pow2(s))
                       + (digit(a, i + 1) % pow2(s)) * pow2(15 - s)],
                  1, Len(a)))

\* a div 2^k
big_shr(a, k) ==
  IF k = 0 THEN a ELSE big_shr_bits(SubSeq(a, k \div 15 + 1, Len(a)), k % 15)

\* The number of binary digits of 0 <= n < 2^15
bit_length(n) == Cardinality({k \in 0..14 : pow2(k) <= n})

\* The number of binary digits of a
big_bit_length(a) ==
  IF Len(a) = 0 THEN 0 ELSE 15 * (Len(a) - 1) + bit_length(a[Len(a)])

\* The binary digit of a at 2^p
big_bit(a, p) == (digit(a, p \div 15 + 1) \div pow2(p % 15)) % 2

\* Whether a has a binary digit below 2^p
big_below(a, p) ==
  \/ \E i \in 1..(p \div 15) : digit(a, i) # 0
  \/ digit(a, p \div 15 + 1) % pow2(p % 15) # 0

\* a / 2^k rounded to the nearest integer, a half going to the even one:
\* the quotient goes up when the digits cut off are more than a half, or a
\* half with the quotient odd.
big_shr_round(a, k) ==
  IF k = 0 THEN a
  ELSE IF big_bit(a, k - 1) = 1 /\ (big_below(a, k - 1) \/ big_bit(a, k) = 1)
  THEN big_add(big_shr(a, k), <<1>>)
  ELSE big_shr(a, k)

\* The number of zero binary digits at the low end of 0 < n < 2^15
trailing_zeros(n) == Cardinality({k \in 1..14 : n % pow2(k) = 0})

\* The number of zero digits at the low end of a > 0
big_zero_digits(a) ==
  Cardinality({i \in 1..Len(a) : \A j \in 1..i : a[j] = 0})

big_trailing_zeros_from(a, i) == 15 * (i - 1) + trailing_zeros(a[i])

\* The number of zero binary digits at the low end of a > 0
big_trailing_zeros(a) == big_trailing_zeros_from(a, big_zero_digits(a) + 1)

\* Division by an integer 0 < d < 2^15, from the highest digit down.  The
\* state is <<the places still to do, the quotient so far, the rest>>.
big_div_put(i, q, d, t) == <<i - 1, <<t \div d>> \o q, t % d>>

big_div_step(a, d, st) == big_div_put(st[1], st[2], d, st[3] * 32768 + a[st[1]])

RECURSIVE big_div_from(_, _, _)
big_div_from(a, d, st) ==
  IF st[1] = 0 THEN st ELSE big_div_from(a, d, big_div_step(a, d, st))

\* <<the quotient without leading zeros, whether there is a rest>>
big_div_result(st, none) == <<big_trim(st[2]), st[3] # none>>

\* The quotient digit of cur by b: the estimate from the leading digits,
\* lowered until it fits (b has its top digit at 2^14 or more and
\* cur < b * 2^15).
RECURSIVE big_digit_fit(_, _, _)
big_digit_fit(cur, b, q) ==
  IF big_cmp(big_mul_small(b, q), cur) > 0 THEN big_digit_fit(cur, b, q - 1)
  ELSE q

big_digit_from(cur, b, est) ==
  big_digit_fit(cur, b, IF est > 32767 THEN 32767 ELSE est)

big_digit(cur, b) ==
  IF Len(cur) < Len(b) THEN 0
  ELSE big_digit_from(
         cur, b,
         (digit(cur, Len(b) + 1) * 32768 + cur[Len(b)]) \div b[Len(b)])

\* Division by a big number b, from the highest digit down, on the same
\* state, the rest being a big number.
big_long_div_put(b, i, q, cur, d) ==
  <<i - 1, <<d>> \o q, big_sub(cur, big_mul_small(b, d))>>

big_long_div_at(b, i, q, cur) ==
  big_long_div_put(b, i, q, cur, big_digit(cur, b))

big_long_div_step(a, b, st) ==
  big_long_div_at(b, st[1], st[2], big_trim(<<a[st[1]]>> \o st[3]))

RECURSIVE big_long_div_from(_, _, _)
big_long_div_from(a, b, st) ==
  IF st[1] = 0 THEN st
  ELSE big_long_div_from(a, b, big_long_div_step(a, b, st))

\* <<a div b, whether a mod b is not 0>> for b with its top digit at 2^14
\* or more
\* The division starts with the leading digits of a, one fewer than b has:
\* the quotient has no digit above them.
big_long_divmod(a, b) ==
  IF Len(a) < Len(b) THEN <<<<>>, Len(a) # 0>>
  ELSE big_div_result(
         big_long_div_from(a, b, <<Len(a) - Len(b) + 1, <<>>,
                                   SubSeq(a, Len(a) - Len(b) + 2, Len(a))>>),
         <<>>)

\* <<a div b, whether a mod b is not 0>> for b > 0
big_divmod(a, b) ==
  IF Len(b) = 1
  THEN big_div_result(big_div_from(a, b[1], <<Len(a), <<>>, 0>>), 0)
  ELSE big_long_divmod(big_shl(a, 15 - bit_length(b[Len(b)])),
                       big_shl(b, 15 - bit_length(b[Len(b)])))

\* ------------------------------------------------------------------------
\* Exact arithmetic on the numbers sign * man * 2^exp (sign 1 or -1, man a
\* big number), which the rounded operations start from.
\* ------------------------------------------------------------------------
exact(sign, man, exp) == [sign |-> sign, man |-> man, exp |-> exp]

\* sx * a + sy * b, both times 2^exp, c being big_cmp(a, b)
exact_add_aligned(sx, a, sy, b, exp, c) ==
  IF sx = sy THEN exact(sx, big_add(a, b), exp)
  ELSE IF c > 0 THEN exact(sx, big_sub(a, b), exp)
  ELSE IF c < 0 THEN exact(sy, big_sub(b, a), exp)
  ELSE exact(1, <<>>, exp)

exact_add_at(sx, a, sy, b, exp) ==
  exact_add_aligned(sx, a, sy, b, exp, big_cmp(a, b))

exact_add_from(x, y, exp) ==
  exact_add_at(x.sign, big_shl(x.man, x.exp - exp),
               y.sign, big_shl(y.man, y.exp - exp), exp)

exact_add(x, y) == exact_add_from(x, y, IF x.exp < y.exp THEN x.exp ELSE y.exp)

exact_mul(x, y) == exact(x.sign * y.sign, big_mul(x.man, y.man), x.exp + y.exp)

\* ------------------------------------------------------------------------
\* The numbers of the program: the int 0 that the code writes, and
\* binary64, the float of CPython.  A number is a record
\*   kind "int":   the integer sign * man (exp is 0);
\*   kind "float": the finite binary64 number sign * man * 2^exp, with man
\*                 odd and of 53 binary digits at most and exp at -1074
\*                 or more (0.0 and -0.0: man 0, exp 0);
\*   kind "inf":   sign * infinity;
\*   kind "nan":   not a number.
\* ------------------------------------------------------------------------
int(n) ==
  [kind |-> "int", sign |-> IF n < 0 THEN -1 ELSE 1,
   man |-> big(IF n < 0 THEN -n ELSE n), exp |-> 0]

zero(sign) == [kind |-> "float", sign |-> sign, man |-> <<>>, exp |-> 0]

inf(sign) == [kind |-> "inf", sign |-> sign, man |-> <<>>, exp |-> 0]

nan == [kind |-> "nan", sign |-> 1, man |-> <<>>, exp |-> 0]

\* The finite binary64 number sign * man * 2^exp, low being the number of
\* zero binary digits at the low end of man
fl_odd(sign, man, exp, low) ==
  [kind |-> "float", sign |-> sign, man |-> big_shr(man, low),
   exp |-> exp + low]

\* sign * man * 2^exp for a mantissa of 53 binary digits at most and exp at
\* -1074 or more: 0, infinity from 2^1024 on, or the float.
fl_pack(sign, man, exp) ==
  IF Len(man) = 0 THEN zero(sign)
  ELSE IF big_bit_length(man) + exp > 1024 THEN inf(sign)
  ELSE fl_odd(sign, man, exp, big_trailing_zeros(man))

fl_cut(x, cut) == fl_pack(x.sign, big_shr_round(x.man, cut), x.exp + cut)

\* The number of binary digits to round away: those beyond the 53rd, or
\* those below 2^-1074 when they are more.
fl_excess(over, under) ==
  IF over > under THEN (IF over > 0 THEN over ELSE 0)
  ELSE (IF under > 0 THEN under ELSE 0)

\* The binary64 number nearest to the exact number x, ties to even: the
\* digits beyond the 53rd and those below 2^-1074 are rounded away in one
\* step, and 2^1024 or more is infinity.
fl(x) == fl_cut(x, fl_excess(big_bit_length(x.man) - 53, -1074 - x.exp))

\* An exception that an operation raises, held in the place of its value
exception(type, message) ==
  [kind |-> type, sign |-> 1, man |-> <<>>, exp |-> 0, error |-> message]

ZeroDivisionError(message) == exception("ZeroDivisionError", message)

OverflowError(message) == exception("OverflowError", message)

raises(x) == x.kind \in {"ZeroDivisionError", "OverflowError"}

\* The float of an int, f being the binary64 number nearest to it: an int
\* that rounds to 2^1024 or more has none.
float_of_int(f) ==
  IF f.kind = "inf" THEN OverflowError("int too large to convert to float")
  ELSE f

\* float(x) for an int x; a float is itself
float(x) == IF x.kind = "int" THEN float_of_int(fl(x)) ELSE x

\* Twice a quotient, plus 1 when the division left a rest or digits of
\* the dividend were left out of it
big_sticky(qr, more) ==
  big_add(big_mul_small(qr[1], 2), IF qr[2] \/ more THEN <<1>> ELSE <<>>)

\* The dividend is given shift further binary digits
nearest_quotient_at(sign, a, b, exp, shift) ==
  fl(exact(sign, big_sticky(big_divmod(big_shl(a, shift), b), FALSE),
           exp - shift - 1))

\* The dividend is taken without its lowest cut binary digits
nearest_quotient_cut(sign, a, b, exp, cut) ==
  fl(exact(sign,
           big_sticky(big_divmod(big_shr(a, cut), b), big_below(a, cut)),
           exp + cut - 1))

nearest_quotient_by(sign, a, b, exp, need) ==
  IF need >= 0 THEN nearest_quotient_at(sign, a, b, exp, need)
  ELSE nearest_quotient_cut(sign, a, b, exp, -need)

\* The binary64 number nearest to sign * (a / b) * 2^exp for b > 0.  The
\* quotient is taken to 55 binary digits and one further digit says
\* whether anything is left over, which is all the rounding asks for.
nearest_quotient(sign, a, b, exp) ==
  IF Len(a) = 0 THEN zero(sign)
  ELSE nearest_quotient_by(sign, a, b, exp,
                           55 + big_bit_length(b) - big_bit_length(a))

\* What the program holds for the decimal units / 10^ndigits (units an
\* integer, ndigits >= 0): the binary64 number nearest to it.
decimal(units, ndigits) ==
  nearest_quotient(IF units < 0 THEN -1 ELSE 1,
                   big(IF units < 0 THEN -units ELSE units),
                   big_pow10(ndigits), 0)

is_zero(x) == x.kind \in {"int", "float"} /\ Len(x.man) = 0

\* The position above the leading binary digit of a finite x # 0
top(x) == big_bit_length(x.man) + x.exp

\* x + y on floats
float_add(x, y) ==
  IF x.kind = "nan" \/ y.kind = "nan" THEN nan
  ELSE IF x.kind = "inf"
       THEN IF y.kind = "inf" /\ y.sign # x.sign THEN nan ELSE x
  ELSE IF y.kind = "inf" THEN y
  ELSE IF is_zero(x) /\ is_zero(y)
       THEN zero(IF x.sign = -1 /\ y.sign = -1 THEN -1 ELSE 1)
  ELSE IF is_zero(y) THEN x
  ELSE IF is_zero(x) THEN y
  \* the smaller one is below a quarter of the last digit of the larger
  ELSE IF top(y) < top(x) - 55 THEN x
  ELSE IF top(x) < top(y) - 55 THEN y
  ELSE fl(exact_add(x, y))

\* x * y on floats
float_mul(x, y) ==
  IF x.kind = "nan" \/ y.kind = "nan" THEN nan
  ELSE IF x.kind = "inf" \/ y.kind = "inf"
       THEN IF is_zero(x) \/ is_zero(y) THEN nan ELSE inf(x.sign * y.sign)
  ELSE fl(exact_mul(x, y))

\* x / y on floats
float_div(x, y) ==
  IF is_zero(y) THEN ZeroDivisionError("float division by zero")
  ELSE IF x.kind = "nan" \/ y.kind = "nan" THEN nan
  ELSE IF x.kind = "inf"
       THEN IF y.kind = "inf" THEN nan ELSE inf(x.sign * y.sign)
  ELSE IF y.kind = "inf" THEN zero(x.sign * y.sign)
  ELSE nearest_quotient(x.sign * y.sign, x.man, y.man, x.exp - y.exp)

\* x + y: int + int is an int, anything else is added as floats
int_of(x) ==
  [kind |-> "int", sign |-> IF Len(x.man) = 0 THEN 1 ELSE x.sign,
   man |-> x.man, exp |-> 0]

\* An operation on floats, x and y being its operands after the conversion
\* of an int: the exception of the conversion, or of an earlier operation,
\* goes before it.
on_floats(op(_, _), x, y) ==
  IF raises(x) THEN x ELSE IF raises(y) THEN y ELSE op(x, y)

add(x, y) ==
  IF x.kind = "int" /\ y.kind = "int" THEN int_of(exact_add(x, y))
  ELSE on_floats(float_add, float(x), float(y))

\* x * y
mul(x, y) ==
  IF x.kind = "int" /\ y.kind = "int" THEN int_of(exact_mul(x, y))
  ELSE on_floats(float_mul, float(x), float(y))

\* The quotient of two ints, q being the binary64 number nearest to it
int_quotient(q) ==
  IF q.kind = "inf"
  THEN OverflowError("integer division result too large for a float")
  ELSE q

\* x / y on ints: the binary64 number nearest to the exact quotient
int_div(x, y) ==
  IF is_zero(y) THEN ZeroDivisionError("division by zero")
  ELSE int_quotient(nearest_quotient(x.sign * y.sign, x.man, y.man, 0))

\* x / y (true division): int / int is rounded once, from the exact
\* quotient; anything else is divided as floats
div(x, y) ==
  IF x.kind = "int" /\ y.kind = "int" THEN int_div(x, y)
  ELSE on_floats(float_div, float(x), float(y))

\* x > 0
positive(x) == x.kind \in {"int", "float", "inf"} /\ x.sign = 1 /\ ~is_zero(x)

\* round(x, ndigits) for 0 <= ndigits: an int, an infinity and a nan are
\* kept, and so is a float without binary digits after the point; any other
\* float goes to the decimal of ndigits digits nearest to its binary value,
\* an exact half going to the even one, and the result is the binary64
\* number nearest to that decimal.
round(x, ndigits) ==
  IF x.kind # "float" \/ x.exp >= 0 THEN x
  ELSE nearest_quotient(
         x.sign,
         big_shr_round(big_mul(x.man, big_pow10(ndigits)), -x.exp),
         big_pow10(ndigits), 0)

\* ------------------------------------------------------------------------
\* sum()
\* ------------------------------------------------------------------------
\* The loop of sum(): its state is <<the number of items added, the sum so
\* far>>, and the items are added left to right.
sum_next(xs, n, acc) == <<n + 1, add(acc, xs[n + 1])>>

RECURSIVE sum_first(_, _)
sum_first(xs, st) ==
  IF st[1] = Len(xs) THEN st[2] ELSE sum_first(xs, sum_next(xs, st[1], st[2]))

\* sum(xs): 0 + xs[0] + ... + xs[len(xs) - 1], from the int 0
sum(xs) == sum_first(xs, <<0, int(0)>>)

\* The same loop over the generator `xs[hour] for hour in hours if hour <
\* len(xs)` (hours are 0-based): an hour beyond the list adds nothing.
sum_hours_next(xs, hours, n, acc) ==
  <<n + 1,
    IF hours[n + 1] < Len(xs) THEN add(acc, xs[hours[n + 1] + 1]) ELSE acc>>

RECURSIVE sum_hours_first(_, _, _)
sum_hours_first(xs, hours, st) ==
  IF st[1] = Len(hours) THEN st[2]
  ELSE sum_hours_first(xs, hours, sum_hours_next(xs, hours, st[1], st[2]))

\* sum(xs[hour] for hour in hours if hour < len(xs))
sum_hours(xs, hours) == sum_hours_first(xs, hours, <<0, int(0)>>)

\* ------------------------------------------------------------------------
\* calculate_performance_metrics
\* ------------------------------------------------------------------------
\* The module-level dict as written: insertion-ordered <<key, factor>> pairs,
\* each factor the float of its decimal, in kg CO2 per kWh.
EmissionFactorTable ==
  << <<coal, decimal(9, 1)>>, <<natural_gas, decimal(45, 2)>>,
     <<oil, decimal(7, 1)>>, <<nuclear, decimal(4, 3)>>,
     <<renewables, decimal(3, 2)>>, <<grid_mix, decimal(5, 1)>> >>

\* A plausible slip: range(6, 21), which loses hour 21.
day_hours_short == range(6, 21)

day_hours == range(6, 22)

night_hours == range(22, 24) \o range(0, 6)

daytime_consumption(hourly_consumption) ==
  sum_hours(hourly_consumption, day_hours)

nighttime_consumption(hourly_consumption) ==
  sum_hours(hourly_consumption, night_hours)

\* A plausible slip: the total taken over the 24 hours of the two windows.
total_consumption_24(hourly_consumption) ==
  sum(slice(hourly_consumption, 0, 24))

total_consumption(hourly_consumption) == sum(hourly_consumption)

\* A plausible slip: the factor of the last key is taken for every source.
emission_factor_last(source) == EMISSION_FACTORS[Len(EMISSION_FACTORS)][2]

\* EMISSION_FACTORS[source]
emission_factor(source) == dict_get(EMISSION_FACTORS, source)

\* total_consumption * emission_factor
total_co2_emissions(total, factor) == mul(total, factor)

\* A plausible slip: the guard is left out.
daytime_cost_unguarded(daytime, day_tariff) == mul(daytime, day_tariff)

\* daytime_consumption * day_tariff if daytime_consumption > 0 else 0
daytime_cost(daytime, day_tariff) ==
  IF positive(daytime) THEN mul(daytime, day_tariff) ELSE int(0)

\* nighttime_consumption * night_tariff if nighttime_consumption > 0 else 0
nighttime_cost(nighttime, night_tariff) ==
  IF positive(nighttime) THEN mul(nighttime, night_tariff) ELSE int(0)

\* daytime_cost + nighttime_cost
total_cost(day_cost, night_cost) == add(day_cost, night_cost)

\* A plausible slip: the guard tests for "not zero" and a negative total is
\* divided by.
average_cost_nonzero(cost, total) ==
  IF ~is_zero(total) THEN round(div(cost, total), 2) ELSE int(0)

\* round(total_cost / total_consumption, 2) if total_consumption > 0 else 0
average_cost(cost, total) ==
  IF positive(total) THEN round(div(cost, total), 2) ELSE int(0)

\* Lines 51-60: the dict, from the values of the locals.
performance_metrics(daytime, nighttime, total, co2, day_cost, night_cost, cost) ==
  ("Average Energy Cost per kWh" :> average_cost(cost, total))
  @@ ("Total Day Time Consumption (kWh)" :> round(daytime, 2))
  @@ ("Total Night Time Consumption (kWh)" :> round(nighttime, 2))
  @@ ("Total Carbon Emissions (kg CO2)" :> round(co2, 3))
  @@ ("Total Energy Consumption (kWh)" :> round(total, 2))
  @@ ("Daytime Cost ($)" :> round(day_cost, 2))
  @@ ("Nighttime Cost ($)" :> round(night_cost, 2))
  @@ ("Total Cost ($)" :> round(cost, 2))

\* Lines 48-60: the total cost, then the dict.
metrics_from_costs(daytime, nighttime, total, co2, day_cost, night_cost) ==
  performance_metrics(daytime, nighttime, total, co2, day_cost, night_cost,
                      total_cost(day_cost, night_cost))

\* Lines 41-60: the emissions and the two costs, then the rest.
metrics_from_sums(daytime, nighttime, total, day_tariff, night_tariff, factor) ==
  metrics_from_costs(daytime, nighttime, total,
                     total_co2_emissions(total, factor),
                     daytime_cost(daytime, day_tariff),
                     nighttime_cost(nighttime, night_tariff))

\* Lines 30-60: the three sums, then the rest: the dict that is returned.
performance_metrics_dict(hourly_consumption, day_tariff, night_tariff, factor) ==
  metrics_from_sums(daytime_consumption(hourly_consumption),
                    nighttime_consumption(hourly_consumption),
                    total_consumption(hourly_consumption),
                    day_tariff, night_tariff, factor)

Returned(value) ==
  [raised |-> FALSE, type |-> None, error |-> None, value |-> value]

Raised(type, error) ==
  [raised |-> TRUE, type |-> type, error |-> error, value |-> None]

\* A plausible slip: a full day is demanded.
too_short_full_day(hourly_consumption) == Len(hourly_consumption) < 24

\* len(hourly_consumption) < 1
too_short(hourly_consumption) == Len(hourly_consumption) < 1

\* The values of the dict in the order in which the function computes
\* them: lines 34, 35, 38, 41, 44, 45, 48 and 52.
ComputedInOrder ==
  <<"Total Day Time Consumption (kWh)", "Total Night Time Consumption (kWh)",
    "Total Energy Consumption (kWh)", "Total Carbon Emissions (kg CO2)",
    "Daytime Cost ($)", "Nighttime Cost ($)", "Total Cost ($)",
    "Average Energy Cost per kWh">>

\* The first of the statements that has raised
first_raised(metrics) ==
  metrics[ComputedInOrder[
    CHOOSE i \in DOMAIN ComputedInOrder :
      /\ raises(metrics[ComputedInOrder[i]])
      /\ \A j \in 1..(i - 1) : ~raises(metrics[ComputedInOrder[j]])]]

raise(x) == Raised(x.kind, <<x.error>>)

\* Line 62: the dict is returned, unless one of the statements before it
\* has raised: the function is left with the first exception.
return_metrics(metrics) ==
  IF \E k \in DOMAIN metrics : raises(metrics[k])
  THEN raise(first_raised(metrics))
  ELSE Returned(metrics)

\* Lines 23-62: the function after `source = source.lower()`.
calculate_from_source(hourly_consumption, day_tariff, night_tariff, source) ==
  IF ~dict_contains(EMISSION_FACTORS, source)
  THEN Raised("ValueError",
              <<"Invalid energy source '", source,
                "'. Valid options are: ", dict_keys(EMISSION_FACTORS)>>)
  ELSE return_metrics(
         performance_metrics_dict(hourly_consumption, day_tariff, night_tariff,
                                  emission_factor(source)))

calculate_performance_metrics(hourly_consumption, day_tariff, night_tariff, source) ==
  IF too_short(hourly_consumption)
  THEN Raised("ValueError",
              <<"Hourly consumption must contain at least 1 value.">>)
  ELSE calculate_from_source(hourly_consumption, day_tariff, night_tariff,
                             lower(source))

\* ------------------------------------------------------------------------
\* performance_metrics (the endpoint)
\* ------------------------------------------------------------------------
\* A plausible slip: math.floor, which drops the last, shorter day.
num_days_floor(hourly_consumption) == Len(hourly_consumption) \div 24

\* math.ceil(len(hourly_consumption) / 24)
num_days(hourly_consumption) == ceil_div(Len(hourly_consumption), 24)

\* A plausible slip: the window is one hour too long.
daily_hourly_consumption_25(hourly_consumption, day) ==
  slice(hourly_consumption, day * 24, day * 24 + 25)

\* hourly_consumption[start_index:end_index]
daily_hourly_consumption(hourly_consumption, day) ==
  slice(hourly_consumption, day * 24, day * 24 + 24)

\* A plausible slip: results is a module-level list, seen by every request.
results_shared(c) ==
  IF \E d \in Clients : d # c /\ results[d] # None
  THEN results[CHOOSE d \in Clients : d # c /\ results[d] # None]
  ELSE <<>>

\* results = []
results_new(c) == <<>>

HTTPException(status_code, detail) ==
  [status_code |-> status_code, detail |-> detail, body |-> None]

JSONResponse(body) == [status_code |-> 200, detail |-> None, body |-> body]

\* An exception that the handler does not catch.
Unhandled(type, error) ==
  [status_code |-> 500, detail |-> <<type>> \o error, body |-> None]

NoRequest == None

\* A client sends a request.
Submit(c, req) ==
  /\ pc[c] = "idle"
  /\ inbox[c] = NoRequest
  /\ inbox' = [inbox EXCEPT ![c] = req]
  /\ UNCHANGED <<EMISSION_FACTORS, call, pc, request, day_index, day_iter,
                 results, response, handed>>

\* Lines 88-97: the handler is entered with the request; the empty check;
\* results = []; the for statement takes range(num_days), which yields 0
\* first.  day_index is not bound before the first iteration.
Receive(c) ==
  /\ pc[c] = "idle"
  /\ inbox[c] # NoRequest
  /\ request' = [request EXCEPT ![c] = inbox[c]]
  /\ inbox' = [inbox EXCEPT ![c] = NoRequest]
  /\ handed' = [handed EXCEPT ![c] = <<>>]
  /\ IF Len(inbox[c].hourly_consumption) = 0
     THEN /\ response' = [response EXCEPT ![c] =
               HTTPException(400,
                 <<"Hourly consumption must contain at least one value.">>)]
          /\ pc' = [pc EXCEPT ![c] = "failed"]
          /\ UNCHANGED <<results, day_iter>>
     ELSE /\ results' = [results EXCEPT ![c] = results_new(c)]
          /\ day_iter' = [day_iter EXCEPT ![c] = 0]
          /\ pc' = [pc EXCEPT ![c] = "loop"]
          /\ UNCHANGED response
  /\ UNCHANGED <<EMISSION_FACTORS, call, day_index>>

\* Lines 101-103 and 107-108: what the handler does with the outcome of the
\* call for the day day: the metrics are appended, a ValueError becomes the
\* HTTP 400 of the request, and any other exception leaves the handler.
IterateWith(c, day, metrics) ==
  IF metrics.raised
  THEN /\ response' = [response EXCEPT ![c] =
            IF metrics.type = "ValueError"
            THEN HTTPException(400, metrics.error)
            ELSE Unhandled(metrics.type, metrics.error)]
       /\ pc' = [pc EXCEPT ![c] = "failed"]
       /\ UNCHANGED results
  ELSE /\ results' = [results EXCEPT ![c] =
            Append(@, [Day |-> day + 1, Metrics |-> metrics.value])]
       /\ UNCHANGED <<response, pc>>

\* Lines 97-103 and 107-108: one iteration of the loop.  The for statement
\* binds day_index to the next value of range(num_days), and the body runs
\* with it; the variable is not touched at the end of the iteration.
Iterate(c) ==
  /\ pc[c] = "loop"
  /\ day_iter[c] < num_days(request[c].hourly_consumption)
  /\ day_index' = [day_index EXCEPT ![c] = day_iter[c]]
  /\ day_iter' = [day_iter EXCEPT ![c] = @ + 1]
  /\ handed' = [handed EXCEPT ![c] =
                  Append(@, daily_hourly_consumption(
                              request[c].hourly_consumption, day_iter[c]))]
  /\ IterateWith(c, day_iter[c],
                 calculate_performance_metrics(
                   daily_hourly_consumption(request[c].hourly_consumption,
                                            day_iter[c]),
                   request[c].day_tariff, request[c].night_tariff,
                   request[c].source))
  /\ UNCHANGED <<EMISSION_FACTORS, call, inbox, request>>

\* Line 105: range(num_days) has no further value, the loop is over and
\* results is returned; day_index keeps the value of the last iteration.
Return(c) ==
  /\ pc[c] = "loop"
  /\ day_iter[c] >= num_days(request[c].hourly_consumption)
  /\ response' = [response EXCEPT ![c] = JSONResponse(results[c])]
  /\ pc' = [pc EXCEPT ![c] = "done"]
  /\ UNCHANGED <<EMISSION_FACTORS, call, inbox, request, day_index, day_iter,
                 results, handed>>

\* The response is delivered and the locals of the call are gone.
Close(c) ==
  /\ pc[c] \in {"done", "failed"}
  /\ pc' = [pc EXCEPT ![c] = "idle"]
  /\ request' = [request EXCEPT ![c] = NoRequest]
  /\ day_index' = [day_index EXCEPT ![c] = None]
  /\ day_iter' = [day_iter EXCEPT ![c] = None]
  /\ results' = [results EXCEPT ![c] = None]
  /\ response' = [response EXCEPT ![c] = None]
  /\ handed' = [handed EXCEPT ![c] = <<>>]
  /\ UNCHANGED <<EMISSION_FACTORS, call, inbox>>

\* The calculator is called directly (not through the endpoint) with the
\* arguments held in call.
DirectCall ==
  /\ call # None
  /\ call.outcome = None
  /\ call' = [call EXCEPT !.outcome =
               calculate_performance_metrics(
                 call.hourly_consumption, call.day_tariff, call.night_tariff,
                 call.source)]
  /\ UNCHANGED <<EMISSION_FACTORS, inbox, pc, request, day_index, day_iter,
                 results, response, handed>>

\* ------------------------------------------------------------------------
\* Inputs
\* ------------------------------------------------------------------------
\* The float n.0
whole(n) == float(int(n))

\* 1e308, the smallest float above 0 (5e-324) and -0.0
huge == [kind |-> "float", sign |-> 1, man |-> <<24133, 14430, 14750, 4>>,
         exp |-> 976]

tiny == [kind |-> "float", sign |-> 1, man |-> <<1>>, exp |-> -1074]

\* kWh in whole numbers; the program does not validate the sign.
Wholes == {whole(-1), whole(0), whole(1)}

\* kWh that binary64 does not hold exactly: 0.1 and 0.004
Fractions == {decimal(1, 1), decimal(4, 3)}

\* kWh at the ends of binary64
Extremes == {huge, tiny, zero(-1), inf(1), inf(-1), nan}

\* The hourly consumption explored: the program takes any float.
Values == Wholes \cup Fractions \cup Extremes

\* A series that is `base` everywhere except `val` at position pos (1-based;
\* pos = 0: nowhere).
pattern(len, base, pos, val) ==
  [i \in 1..len |-> IF i = pos THEN val ELSE base]

\* A series that is `first` on its first k values and `rest` after them.
step(len, k, first, rest) ==
  [i \in 1..len |-> IF i <= k THEN first ELSE rest]

\* The hours where a window of the day starts: 6, 22 and, for the hours
\* after the day, 24
WindowEnds == {6, 22, 24}

\* The series of up to maxLen of the given values that have one of them
\* throughout, but possibly for one place, or one up to the end of a window
\* and another after it.
SeriesOver(maxLen, values) ==
  { pattern(len, base, pos, val) :
      len \in 0..maxLen, base \in values, pos \in 0..maxLen, val \in values }
  \cup
  { step(len, k, first, rest) :
      len \in 0..maxLen, k \in WindowEnds, first \in values, rest \in values }

\* The series of whole numbers
Series(maxLen) == SeriesOver(maxLen, Wholes)

\* The positions around the ends of the days of a series of up to maxLen
\* values.
Marks(maxLen) == {0, 1, 24, 25, 48, maxLen}

\* The series of other numbers: one value throughout, but possibly for
\* one place at the end of a day, or a day of a fraction with 0.0 after it
OtherSeries(maxLen) ==
  { pattern(len, base, pos, val) :
      len \in 1..maxLen, base \in Values \ Wholes,
      pos \in {0, 1, 24, maxLen}, val \in {whole(1), decimal(1, 1)} }
  \cup
  { step(len, 24, base, whole(0)) : len \in 25..maxLen, base \in Fractions }

\* The series of one value throughout, of a few lengths
PlainSeries(maxLen) ==
  { pattern(len, base, 0, base) :
      len \in {1, 7, 24, maxLen}, base \in {whole(1), decimal(1, 1)} }

\* The series of the requests: the odd value or the step at the ends of the
\* days.
EndpointSeriesOver(maxLen, values, others) ==
  { pattern(len, base, pos, val) :
      len \in 0..maxLen, base \in values, pos \in Marks(maxLen),
      val \in values }
  \cup
  { step(len, k, first, rest) :
      len \in 0..maxLen, k \in {24, 48}, first \in values, rest \in values }
  \cup
  { pattern(len, base, 0, base) : len \in 1..maxLen, base \in others }

EndpointSeries(maxLen) ==
  EndpointSeriesOver(maxLen, Wholes, Fractions \cup {huge, nan})

COAL == text(<<"C","O","A","L">>)
Grid_Mix == text(<<"G","r","i","d","_","M","i","x">>)
wind == text(<<"w","i","n","d">>)
empty_string == <<>>

\* Sources beyond ASCII: "ÉOL", "ΩMEGA", "ΑΣ" (the sigma is final), "OİL"
\* (with U+0130, whose lowercase is two code points) and "KELVIN" with the
\* Kelvin sign U+212A for its K.
EOL == <<201, 79, 76>>
OMEGA == <<937, 77, 69, 71, 65>>
ALPHA_SIGMA == <<913, 931>>
OIL_dotted == <<79, 304, 76>>
KELVIN == <<8490, 69, 76, 86, 73, 78>>

ValidKeys == {coal, natural_gas, oil, nuclear, renewables, grid_mix}

UnknownSources ==
  {wind, empty_string, EOL, OMEGA, ALPHA_SIGMA, OIL_dotted, KELVIN}

CalcSources == ValidKeys \cup {COAL, Grid_Mix} \cup UnknownSources

\* $ per kWh; the program does not validate the sign.
CalcTariffs ==
  {<<decimal(10, 2), decimal(5, 2)>>, <<decimal(-5, 2), decimal(0, 2)>>}

\* Tariffs at the ends of binary64
OtherTariffs ==
  {<<huge, decimal(5, 2)>>, <<huge, [huge EXCEPT !.sign = -1]>>, <<nan, decimal(5, 2)>>,
   <<tiny, tiny>>}

\* The direct calls: every series with the usual tariffs from coal, the
\* series that are not of whole numbers with the other tariffs as well, and
\* the plain series with every tariff and from every source.
CallsOf(series, others, plain, tariffs, extreme, sources) ==
  ((series \cup others) \X tariffs \X {coal})
  \cup
  (others \X extreme \X {coal})
  \cup
  (plain \X tariffs \X sources)
  \cup
  (plain \X extreme \X {coal, COAL})

\* 2^53 + 1, an int that binary64 does not hold
odd_int == [kind |-> "int", sign |-> 1, man |-> <<1, 0, 0, 256>>, exp |-> 0]

\* Direct calls with ints where the annotations say float: Python does not
\* check them.
IntCalls ==
  { <<hc, tariffs, coal>> :
      hc \in {<<int(3)>>, [i \in 1..24 |-> int(1)], <<int(-2), whole(1)>>},
      tariffs \in {<<int(1), odd_int>>, <<decimal(10, 2), int(1)>>} }

CalcCalls ==
  CallsOf(Series(CalcMaxLen), OtherSeries(CalcMaxLen),
          PlainSeries(CalcMaxLen), CalcTariffs, OtherTariffs, CalcSources)
  \cup IntCalls

EndpointSources == {coal, COAL, wind}

EndpointTariffs ==
  {<<decimal(10, 2), decimal(5, 2)>>, <<decimal(-5, 2), decimal(0, 2)>>}

\* The requests: every series at the usual tariffs from coal, and the plain
\* series from every source.
RequestsOf(series, plain, tariffs, sources) ==
  (series \X tariffs \X {coal}) \cup (plain \X tariffs \X sources)

EndpointRequests ==
  RequestsOf(EndpointSeries(EndpointMaxLen), PlainSeries(EndpointMaxLen) \cup {<<>>},
             EndpointTariffs, EndpointSources)

ConcSeries ==
  { pattern(len, whole(1), pos, whole(0)) :
      len \in {0, ConcMaxLen}, pos \in {0, 1} }

ConcSources == {coal, wind}

ConcTariffs == {<<decimal(10, 2), decimal(5, 2)>>}

MakeRequest(hc, dt, nt, src) ==
  [hourly_consumption |-> hc, day_tariff |-> dt, night_tariff |-> nt,
   source |-> src]

\* ------------------------------------------------------------------------
\* Specifications
\* ------------------------------------------------------------------------
Init ==
  /\ EMISSION_FACTORS = EmissionFactorTable
  /\ pc = [c \in Clients |-> "idle"]
  /\ request = [c \in Clients |-> NoRequest]
  /\ day_index = [c \in Clients |-> None]
  /\ day_iter = [c \in Clients |-> None]
  /\ results = [c \in Clients |-> None]
  /\ response = [c \in Clients |-> None]
  /\ handed = [c \in Clients |-> <<>>]

\* One request, served on its own: it is on its way at the start.
EndpointInit ==
  /\ Init
  /\ call = None
  /\ \E x \in EndpointRequests :
       inbox = [c \in Clients |->
                  IF c = 1 THEN MakeRequest(x[1], x[2][1], x[2][2], x[3])
                  ELSE NoRequest]

Next == Receive(1) \/ Iterate(1) \/ Return(1) \/ Close(1)

Spec == EndpointInit /\ [][Next]_vars

\* The calculator on its own: the arguments of the call are drawn at the
\* start, the step is the call.
CalcInit ==
  /\ Init
  /\ inbox = [c \in Clients |-> NoRequest]
  /\ \E x \in CalcCalls :
       call = [hourly_consumption |-> x[1], day_tariff |-> x[2][1],
               night_tariff |-> x[2][2], source |-> x[3], outcome |-> None]

CalcNext == DirectCall

CalcSpec == CalcInit /\ [][CalcNext]_vars

\* Requests of several clients, one after the other and interleaved at every
\* step of the handler.
ConcInit ==
  /\ Init
  /\ call = None
  /\ inbox = [c \in Clients |-> NoRequest]

ConcRequests ==
  { MakeRequest(x[1], x[2][1], x[2][2], x[3]) :
      x \in ConcSeries \X ConcTariffs \X ConcSources }

SubmitAny == \E c \in Clients, req \in ConcRequests : Submit(c, req)

ReceiveAny == \E c \in Clients : Receive(c)

IterateAny == \E c \in Clients : Iterate(c)

ReturnAny == \E c \in Clients : Return(c)

CloseAny == \E c \in Clients : Close(c)

ConcNext == SubmitAny \/ ReceiveAny \/ IterateAny \/ ReturnAny \/ CloseAny

ConcSpec == ConcInit /\ [][ConcNext]_vars


\* ------------------------------------------------------------------------
\* Properties of the calculator (CalcSpec)
\* ------------------------------------------------------------------------
\* The direct call has been made.
Called == call # None /\ call.outcome # None

\* The direct call has returned a dict.
CalledOk == Called /\ ~call.outcome.raised

Metrics == call.outcome.value

\* The sources of the explored calls that are a key up to letter case.
KnownSources == ValidKeys \cup {COAL, Grid_Mix}

\* The hours of a window that are counted for a series of len values.
Counted(hours, len) == { hours[i] : i \in { j \in DOMAIN hours : hours[j] < len } }

NoRepeat(hours) == Cardinality({ hours[i] : i \in DOMAIN hours }) = Len(hours)

\* Exact arithmetic beyond the sum and the product: the reference that the
\* rounded results are measured against.
exact_abs(x) == exact(1, x.man, x.exp)

exact_neg(x) == exact(-x.sign, x.man, x.exp)

exact_sub(x, y) == exact_add(x, exact_neg(y))

\* x * 2^k
exact_scale(x, k) == exact(x.sign, x.man, x.exp + k)

\* x <= y
exact_le(x, y) ==
  LET d == exact_sub(y, x) IN d.sign = 1 \/ Len(d.man) = 0

finite(x) == x.kind \in {"int", "float"}

\* x == y as Python compares numbers: by value, an int and a float too
equal(x, y) ==
  /\ x.kind # "nan"
  /\ y.kind # "nan"
  /\ IF finite(x) /\ finite(y)
     THEN IF x.kind = y.kind THEN (is_zero(x) /\ is_zero(y)) \/ x = y
          ELSE Len(exact_sub(x, y).man) = 0
     ELSE x.kind = y.kind /\ x.sign = y.sign

\* A finite number of ordinary size: 0, or between 2^-192 and 2^192.  The
\* sums and products of a few of them neither overflow nor underflow.
plain(x) == finite(x) /\ (Len(x.man) = 0 \/ (x.exp >= -192 /\ top(x) <= 192))

AllPlain(xs) == \A i \in DOMAIN xs : plain(xs[i])

\* A whole number of kWh below 2^28 in size: the sums of a few of them are
\* whole numbers below 2^53, which binary64 holds exactly.
is_whole(x) ==
  x.kind = "float" /\ (Len(x.man) = 0 \/ (x.exp >= 0 /\ top(x) <= 28))

AllWhole(xs) == \A i \in DOMAIN xs : is_whole(xs[i])

\* -x and x - y as the floats of Python have them
negative(x) ==
  IF x.kind = "nan" \/ (x.kind = "int" /\ Len(x.man) = 0) THEN x
  ELSE [x EXCEPT !.sign = -x.sign]

minus(x, y) == add(x, negative(y))

\* The exact number 0 and the exact number n * 2^k
exact_zero == exact(1, <<>>, 0)

exact_int(n, k) == exact(1, big(n), k)

\* The exact sum of the finite numbers xs[from] .. xs[to], and of their
\* sizes.
RECURSIVE exact_sum(_, _, _)
exact_sum(xs, from, to) ==
  IF from > to THEN exact_zero
  ELSE exact_add(exact_sum(xs, from, to - 1), xs[to])

RECURSIVE exact_abs_sum(_, _, _)
exact_abs_sum(xs, from, to) ==
  IF from > to THEN exact_zero
  ELSE exact_add(exact_abs_sum(xs, from, to - 1), exact_abs(xs[to]))

\* |x - y| <= bound, exactly
within(x, y, bound) == exact_le(exact_abs(exact_sub(x, y)), bound)

\* The sums and the costs the calculator works with for the series hc
DaySum(hc) == daytime_consumption(hc)

NightSum(hc) == nighttime_consumption(hc)

TotalSum(hc) == total_consumption(hc)

CostOf(hc, day_tariff, night_tariff) ==
  total_cost(daytime_cost(DaySum(hc), day_tariff),
             nighttime_cost(NightSum(hc), night_tariff))

\* The index partition of C1: every hour below the length is in exactly one
\* of the two windows, no hour is taken twice and none from the length on.
HoursPartition(len) ==
  LET day == Counted(day_hours, len)
      night == Counted(night_hours, len)
  IN  /\ NoRepeat(day_hours)
      /\ NoRepeat(night_hours)
      /\ day \cap night = {}
      /\ day \cup night = 0..(len - 1)
      /\ day = { h \in 0..(len - 1) : 6 <= h /\ h <= 21 }

\* C1 as stated: for a series of 1 to 24 values and a valid source the
\* unrounded day sum plus the unrounded night sum == the total, every hour
\* below the length being counted once in exactly one of the two sums.
C1_SumsAsStated ==
  (CalledOk /\ Len(call.hourly_consumption) <= 24) =>
    LET hc == call.hourly_consumption
    IN  /\ equal(add(DaySum(hc), NightSum(hc)), TotalSum(hc))
        /\ HoursPartition(Len(hc))

\* C1 amended: for a series of 1 to 24 values and a valid source every hour
\* below the length is counted once, in exactly one of the day sum and the
\* night sum, and none from the length on.  The day sum plus the night sum
\* == the total when the values are whole numbers, whose sums binary64
\* holds exactly; for other values of ordinary size the three sums are
\* rounded additions in different orders, and day + night is within
\* 2^-47 * (sum of the sizes of the values) of the total; with a nan among
\* the values the total is nan and equal to nothing.
C1_DayPlusNightNearTotal ==
  (CalledOk /\ Len(call.hourly_consumption) <= 24) =>
    LET hc == call.hourly_consumption
        both == add(DaySum(hc), NightSum(hc))
        total == TotalSum(hc)
    IN  /\ HoursPartition(Len(hc))
        /\ AllWhole(hc) =>
             /\ equal(both, total)
             /\ equal(add(Metrics["Total Day Time Consumption (kWh)"],
                          Metrics["Total Night Time Consumption (kWh)"]),
                      Metrics["Total Energy Consumption (kWh)"])
        /\ AllPlain(hc) =>
             /\ within(both, total,
                       exact_scale(exact_abs_sum(hc, 1, Len(hc)), -47))
             /\ within(total, exact_sum(hc, 1, Len(hc)),
                       exact_scale(exact_abs_sum(hc, 1, Len(hc)), -47))
        /\ (\E i \in DOMAIN hc : hc[i].kind = "nan") =>
             total.kind = "nan" /\ ~equal(both, total)

\* 0.1 and 0.004 kWh, and a full day of 0.1 kWh an hour
Tenth == decimal(1, 1)

FourThousandths == decimal(4, 3)

TenthsDay == [i \in 1..24 |-> Tenth]

\* A full day of 0.1 kWh an hour has been computed: the day sum plus the
\* night sum is not the total, and the rounded fields are 1.6, 0.8 and 2.4.
C1_Witness ==
  /\ CalledOk
  /\ call.hourly_consumption = TenthsDay
  /\ ~equal(add(DaySum(call.hourly_consumption),
                NightSum(call.hourly_consumption)),
            TotalSum(call.hourly_consumption))
  /\ Metrics["Total Day Time Consumption (kWh)"] = decimal(16, 1)
  /\ Metrics["Total Night Time Consumption (kWh)"] = decimal(8, 1)
  /\ Metrics["Total Energy Consumption (kWh)"] = decimal(24, 1)

\* The lowercase of the sources beyond ASCII, written out: "éol", "ωmega",
\* "ας" with the final sigma, "oi̇l" with i and the combining dot above, and
\* "kelvin".
eol == <<233, 111, 108>>

omega == <<969, 109, 101, 103, 97>>

alpha_sigma == <<945, 962>>

oil_dotted == <<111, 105, 775, 108>>

kelvin == text(<<"k", "e", "l", "v", "i", "n">>)

\* The message of the ValueError for an unknown source
InvalidSource(src) ==
  <<"Invalid energy source '", src, "'. Valid options are: ",
    <<coal, natural_gas, oil, nuclear, renewables, grid_mix>> >>

\* C3: the calculator raises, and then a ValueError, exactly when the series
\* is empty or the lowercased source is not one of the six keys; a source
\* in capitals gives the result of the lowercase key; the message for an
\* unknown source names the lowercased source and lists the six keys in the
\* order of the dict.
C3_RaisesIffEmptyOrUnknown ==
  Called =>
    LET hc == call.hourly_consumption
        unknown(src, low) ==
          (Len(hc) > 0 /\ call.source = src) =>
            call.outcome = Raised("ValueError", InvalidSource(low))
    IN  /\ call.outcome.raised <=>
             (Len(hc) = 0 \/ call.source \notin KnownSources)
        /\ call.outcome.raised => call.outcome.type = "ValueError"
        /\ Len(hc) = 0 =>
             call.outcome.error
               = <<"Hourly consumption must contain at least 1 value.">>
        /\ call.source = COAL =>
             call.outcome = calculate_performance_metrics(
                              hc, call.day_tariff, call.night_tariff, coal)
        /\ call.source = Grid_Mix =>
             call.outcome = calculate_performance_metrics(
                              hc, call.day_tariff, call.night_tariff, grid_mix)
        /\ unknown(wind, wind)
        /\ unknown(empty_string, empty_string)
        /\ unknown(EOL, eol)
        /\ unknown(OMEGA, omega)
        /\ unknown(ALPHA_SIGMA, alpha_sigma)
        /\ unknown(OIL_dotted, oil_dotted)
        /\ unknown(KELVIN, kelvin)

\* "COAL" has been accepted for a day with consumption.
C3_Witness ==
  /\ CalledOk
  /\ call.source = COAL
  /\ Len(call.hourly_consumption) = 24
  /\ Metrics["Total Carbon Emissions (kg CO2)"] = decimal(216, 1)

\* C5 as stated: the average is 0 when the total == 0 and otherwise the
\* total cost over the total, rounded to 2 decimals; no division by zero.
C5_AverageAsStated ==
  Called =>
    /\ call.outcome.type # "ZeroDivisionError"
    /\ CalledOk =>
         LET hc == call.hourly_consumption
             total == TotalSum(hc)
             cost == CostOf(hc, call.day_tariff, call.night_tariff)
             avg == Metrics["Average Energy Cost per kWh"]
         IN  IF equal(total, int(0)) THEN equal(avg, int(0))
             ELSE avg = round(div(cost, total), 2)

\* C5 amended: the average is the int 0 whenever the total is not above 0
\* (zero, negative or nan), and the total cost over the total, rounded to
\* 2 decimals, when the total is above 0: then, for numbers of ordinary size, 200 *
\* |average * total - cost| is at most the total (half a cent per kWh) but
\* for the rounding of the quotient, which is below 2^-42 of the total and
\* of the cost; no division by zero.
C5_AverageZeroUnlessPositive ==
  Called =>
    /\ call.outcome.type # "ZeroDivisionError"
    /\ CalledOk =>
         LET hc == call.hourly_consumption
             total == TotalSum(hc)
             cost == CostOf(hc, call.day_tariff, call.night_tariff)
             avg == Metrics["Average Energy Cost per kWh"]
         IN  /\ ~positive(total) => avg = int(0)
             /\ positive(total) => avg = round(div(cost, total), 2)
             /\ (positive(total) /\ plain(total) /\ plain(cost)
                   /\ plain(avg)) =>
                  exact_le(
                    exact_mul(exact_int(200, 0),
                              exact_abs(exact_sub(exact_mul(avg, total), cost))),
                    exact_add(total,
                              exact_scale(exact_add(total, exact_abs(cost)),
                                          -42)))

\* A series with a negative total and a cost has been computed: the average
\* is 0, not the quotient.
C5_Witness ==
  /\ CalledOk
  /\ TotalSum(call.hourly_consumption).sign = -1
  /\ ~is_zero(TotalSum(call.hourly_consumption))
  /\ positive(Metrics["Total Cost ($)"])
  /\ Metrics["Average Energy Cost per kWh"] = int(0)

\* The series of the example: 24 values of 1.0.
OnesDay == [i \in 1..24 |-> whole(1)]

\* C6: 24 values of 1.0 at 0.10 by day and 0.05 by night from coal give
\* 16.0 and 8.0 kWh, 24.0 kWh in total, 21.6 kg CO2, costs of 1.6, 0.4 and
\* 2.0 and an average of 0.08 per kWh: the floats that these decimals
\* denote.
C6_Example ==
  ( /\ Called
    /\ call.hourly_consumption = OnesDay
    /\ call.day_tariff = decimal(10, 2)
    /\ call.night_tariff = decimal(5, 2)
    /\ call.source = coal ) =>
      /\ ~call.outcome.raised
      /\ DOMAIN Metrics =
           {"Average Energy Cost per kWh", "Total Day Time Consumption (kWh)",
            "Total Night Time Consumption (kWh)",
            "Total Carbon Emissions (kg CO2)",
            "Total Energy Consumption (kWh)", "Daytime Cost ($)",
            "Nighttime Cost ($)", "Total Cost ($)"}
      /\ Metrics["Total Day Time Consumption (kWh)"] = decimal(160, 1)
      /\ Metrics["Total Night Time Consumption (kWh)"] = decimal(80, 1)
      /\ Metrics["Total Energy Consumption (kWh)"] = decimal(240, 1)
      /\ Metrics["Total Carbon Emissions (kg CO2)"] = decimal(216, 1)
      /\ Metrics["Daytime Cost ($)"] = decimal(16, 1)
      /\ Metrics["Nighttime Cost ($)"] = decimal(4, 1)
      /\ Metrics["Total Cost ($)"] = decimal(20, 1)
      /\ Metrics["Average Energy Cost per kWh"] = decimal(8, 2)

\* The example has been computed.
C6_Witness ==
  /\ CalledOk
  /\ call.hourly_consumption = OnesDay
  /\ call.day_tariff = decimal(10, 2)
  /\ call.night_tariff = decimal(5, 2)
  /\ call.source = coal
  /\ Metrics["Total Carbon Emissions (kg CO2)"] = decimal(216, 1)

\* The exact product of a window's sum and its tariff when the sum is above
\* 0, and the exact 0 otherwise.
ExactCost(consumption, tariff) ==
  IF positive(consumption) THEN exact_mul(consumption, tariff) ELSE exact_zero

\* 200 * |field - x| <= 1 + 2^-40 * size: the field is x rounded to 2
\* decimals, but for the rounding of the operations that gave x.
RoundedFrom(field, x, size) ==
  exact_le(exact_mul(exact_int(200, 0), exact_abs(exact_sub(field, x))),
           exact_add(exact_int(1, 0), exact_scale(size, -40)))

\* C8 as stated: for every accepted input each cost == the consumption of
\* its window times its tariff, being 0 when that consumption is 0, and the
\* total cost == their sum.
C8_CostsAsStated ==
  CalledOk =>
    LET hc == call.hourly_consumption
        day_cost == daytime_cost(DaySum(hc), call.day_tariff)
        night_cost == nighttime_cost(NightSum(hc), call.night_tariff)
    IN  /\ equal(day_cost, mul(DaySum(hc), call.day_tariff))
        /\ equal(night_cost, mul(NightSum(hc), call.night_tariff))
        /\ equal(DaySum(hc), int(0)) => equal(day_cost, int(0))
        /\ equal(NightSum(hc), int(0)) => equal(night_cost, int(0))
        /\ equal(total_cost(day_cost, night_cost), add(day_cost, night_cost))

\* C8 amended: each cost is the consumption of its window times its tariff
\* when that consumption is above 0, and the int 0 when it is not (zero,
\* negative or nan); the total cost is the sum of the two.  The products
\* and the sum are those of binary64: infinite beyond its range, and nan
\* for the sum of an infinite cost and its opposite.  For numbers of ordinary size
\* each returned cost is the exact product, and the returned total cost the
\* exact sum of the two products, rounded to 2 decimals.
C8_CostsOfPositiveConsumption ==
  CalledOk =>
    LET hc == call.hourly_consumption
        day == DaySum(hc)
        night == NightSum(hc)
        day_cost == IF positive(day) THEN mul(day, call.day_tariff) ELSE int(0)
        night_cost ==
          IF positive(night) THEN mul(night, call.night_tariff) ELSE int(0)
        exact_day == ExactCost(day, call.day_tariff)
        exact_night == ExactCost(night, call.night_tariff)
    IN  /\ Metrics["Daytime Cost ($)"] = round(day_cost, 2)
        /\ Metrics["Nighttime Cost ($)"] = round(night_cost, 2)
        /\ Metrics["Total Cost ($)"] = round(add(day_cost, night_cost), 2)
        /\ ~positive(day) => Metrics["Daytime Cost ($)"] = int(0)
        /\ ~positive(night) => Metrics["Nighttime Cost ($)"] = int(0)
        /\ (day_cost.kind = "inf" /\ night_cost = negative(day_cost)) =>
             Metrics["Total Cost ($)"] = nan
        /\ ( /\ plain(day) /\ plain(night)
             /\ plain(call.day_tariff) /\ plain(call.night_tariff) ) =>
             /\ RoundedFrom(Metrics["Daytime Cost ($)"], exact_day,
                            exact_abs(exact_day))
             /\ RoundedFrom(Metrics["Nighttime Cost ($)"], exact_night,
                            exact_abs(exact_night))
             /\ RoundedFrom(Metrics["Total Cost ($)"],
                            exact_add(exact_day, exact_night),
                            exact_add(exact_abs(exact_day),
                                      exact_abs(exact_night)))

\* A day with a negative day sum, a positive night sum and both tariffs
\* non-zero has been computed: the day costs nothing.
C8_Witness ==
  /\ CalledOk
  /\ DaySum(call.hourly_consumption).sign = -1
  /\ ~is_zero(DaySum(call.hourly_consumption))
  /\ positive(NightSum(call.hourly_consumption))
  /\ ~is_zero(call.day_tariff)
  /\ Metrics["Daytime Cost ($)"] = int(0)
  /\ positive(Metrics["Nighttime Cost ($)"])

\* The sum of the values from index 24 on
TailSum(hc) == sum(slice(hc, 24, Len(hc)))

MetricsOf(c, from, to) ==
  calculate_performance_metrics(
    SubSeq(request[c].hourly_consumption, from, to),
    request[c].day_tariff, request[c].night_tariff, request[c].source).value

\* The totals of the entries of a response body
Totals(body) ==
  [k \in DOMAIN body |-> body[k].Metrics["Total Energy Consumption (kWh)"]]

\* C2: a request of N >= 1 values with a valid source returns exactly
\* ceil(N/24) entries in the order of the input, the k-th with Day = k and
\* the metrics of the values 24(k-1) .. min(24k, N) - 1; 30 values give two
\* entries, from the values 0-23 and 24-29.
C2_OneEntryPerDay ==
  \A c \in Clients :
    LET hc == request[c].hourly_consumption
        N == Len(hc)
        body == response[c].body
    IN  /\ pc[c] = "failed" => (N = 0 \/ request[c].source \notin KnownSources)
        /\ pc[c] = "done" =>
             /\ N >= 1
             /\ request[c].source \in KnownSources
             /\ response[c].status_code = 200
             /\ 24 * Len(body) >= N
             /\ 24 * (Len(body) - 1) < N
             /\ \A k \in 1..Len(body) :
                  /\ body[k].Day = k
                  /\ body[k].Metrics =
                       MetricsOf(c, 24 * (k - 1) + 1,
                                 IF 24 * k < N THEN 24 * k ELSE N)
             /\ N = 30 =>
                  /\ Len(body) = 2
                  /\ body[1] = [Day |-> 1, Metrics |-> MetricsOf(c, 1, 24)]
                  /\ body[2] = [Day |-> 2, Metrics |-> MetricsOf(c, 25, 30)]

\* A request of 30 values has returned two entries with different metrics.
C2_Witness ==
  /\ pc[1] = "done"
  /\ Len(request[1].hourly_consumption) = 30
  /\ Len(response[1].body) = 2
  /\ response[1].body[1].Metrics # response[1].body[2].Metrics

\* C4: when a request fails, no day entry has been produced: the list of
\* results is empty, the response is the error alone, an empty series has
\* not reached the calculator and an unknown source has failed in the
\* first call of the calculator.
C4_NoPartialResults ==
  \A c \in Clients :
    pc[c] = "failed" =>
      /\ results[c] = <<>>
      /\ response[c].status_code = 400
      /\ response[c].body = None
      /\ response[c].detail # None
      /\ Len(request[c].hourly_consumption) = 0 => handed[c] = <<>>
      /\ Len(request[c].hourly_consumption) > 0 =>
           /\ request[c].source \notin KnownSources
           /\ Len(handed[c]) = 1
           /\ day_index[c] = 0

\* A request of more than one day has failed on its unknown source.
C4_Witness ==
  /\ pc[1] = "failed"
  /\ Len(request[1].hourly_consumption) > 24
  /\ request[1].source = wind
  /\ Len(handed[1]) = 1

\* C7: the dict of emission factors is never changed, and two requests with
\* the same four inputs have the same response, whatever was served before
\* or in between.
C7_ResponseDependsOnInputsOnly ==
  /\ EMISSION_FACTORS = EmissionFactorTable
  /\ \A c, d \in Clients :
       ( /\ pc[c] \in {"done", "failed"}
         /\ pc[d] \in {"done", "failed"}
         /\ request[c] = request[d] ) => response[c] = response[d]

\* Two clients have got the response to the same request of more than one
\* day.
C7_Witness ==
  /\ pc[1] = "done"
  /\ pc[2] = "done"
  /\ request[1] = request[2]
  /\ Len(response[1].body) >= 2
  /\ response[1] = response[2]

\* Every slice handed to the calculator has 1 to 24 values, 24 for all but
\* possibly the last, and the error of the calculator for an empty series
\* is never the response.
SlicesAreDays(c) ==
  /\ \A i \in DOMAIN handed[c] :
       /\ Len(handed[c][i]) >= 1
       /\ Len(handed[c][i]) <= 24
       /\ i < Len(handed[c]) => Len(handed[c][i]) = 24
  /\ (pc[c] = "failed" /\ Len(request[c].hourly_consumption) > 0) =>
       response[c].detail[1] = "Invalid energy source '"
  /\ pc[c] = "done" => Len(handed[c]) = Len(response[c].body)

\* C10 as stated: every slice the endpoint hands to the calculator has 1 to
\* 24 values, 24 for all but possibly the last; every returned entry has
\* day + night == total, and the totals of the entries add up to the sum of
\* the whole input.
C10_DaysAsStated ==
  \A c \in Clients :
    /\ SlicesAreDays(c)
    /\ pc[c] = "done" =>
         LET body == response[c].body IN
         /\ \A k \in DOMAIN body :
              equal(add(body[k].Metrics["Total Day Time Consumption (kWh)"],
                        body[k].Metrics["Total Night Time Consumption (kWh)"]),
                    body[k].Metrics["Total Energy Consumption (kWh)"])
         /\ equal(sum(Totals(body)), sum(request[c].hourly_consumption))

\* C10 amended: every slice the endpoint hands to the calculator has 1 to
\* 24 values, 24 for all but possibly the last, and the error of the
\* calculator for an empty series is never the response.  Every returned
\* entry has day + night == total, and the totals of the entries add up to
\* the sum of the whole input, when the values are whole numbers; for other
\* values of ordinary size each of the three fields is rounded to 2 decimals on its
\* own, so that day + night is within 0.015 of the total, and the totals of
\* the entries within 0.005 a day of the sum of the whole input, but for
\* the rounding of the additions (below 2^-37 of the sum of the sizes of
\* the values).
C10_SlicesAreDays ==
  \A c \in Clients :
    /\ SlicesAreDays(c)
    /\ pc[c] = "done" =>
         LET body == response[c].body
             hc == request[c].hourly_consumption
             size == exact_abs_sum(hc, 1, Len(hc))
             day(k) == body[k].Metrics["Total Day Time Consumption (kWh)"]
             night(k) == body[k].Metrics["Total Night Time Consumption (kWh)"]
             total(k) == body[k].Metrics["Total Energy Consumption (kWh)"]
         IN  /\ AllWhole(hc) =>
                  /\ \A k \in DOMAIN body :
                       equal(add(day(k), night(k)), total(k))
                  /\ equal(sum(Totals(body)), sum(hc))
             /\ AllPlain(hc) =>
                  /\ \A k \in DOMAIN body :
                       exact_le(
                         exact_mul(exact_int(200, 0),
                                   exact_abs(exact_sub(
                                     exact_add(day(k), night(k)), total(k)))),
                         exact_add(exact_int(3, 0), exact_scale(size, -37)))
                  /\ exact_le(
                       exact_mul(exact_int(200, 0),
                                 exact_abs(exact_sub(
                                   exact_sum(Totals(body), 1, Len(body)),
                                   exact_sum(hc, 1, Len(hc))))),
                       exact_add(exact_int(Len(body), 0),
                                 exact_scale(size, -37)))

\* A request of more than a day of 0.004 kWh an hour, with a shorter last
\* day, has returned: the fields of its first day are 0.06, 0.03 and 0.1.
C10_Witness ==
  /\ pc[1] = "done"
  /\ Len(request[1].hourly_consumption) > 24
  /\ Len(request[1].hourly_consumption) % 24 # 0
  /\ \A i \in DOMAIN request[1].hourly_consumption :
       request[1].hourly_consumption[i] = FourThousandths
  /\ Len(handed[1]) >= 2
  /\ ~equal(add(response[1].body[1].Metrics["Total Day Time Consumption (kWh)"],
                response[1].body[1].Metrics["Total Night Time Consumption (kWh)"]),
            response[1].body[1].Metrics["Total Energy Consumption (kWh)"])
====
